---- MODULE Spec2Model ----
(***************************************************************************)
(* Model of create_color_map.py: the ColorMapMaker object (constructor,    *)
(* process_image, save_result_to_file, cleanup) driven by the __main__     *)
(* block.  One run of the script is one behaviour.                         *)
(***************************************************************************)
EXTENDS Integers, Sequences, FiniteSets, TLC

\* Bounds of the explored inputs.
MaxFrames == 49
MaxSize == 2
MaxSection == 2

\* The sampling period written into the loop of process_image.
SampleEvery == 24

\* Values of --sampling-interval that are explored: invalid ones, every one
\* up to the period the loop uses, and one above it.
Intervals == -1 .. SampleEvery + 1

VARIABLES
    video_opened,               \* cv2.VideoCapture managed to open the file
    frame_count,                \* what CAP_PROP_FRAME_COUNT reports
    image_size,                 \* self._image_size
    color_section_size,         \* self._color_section_size
    flip_to_vertical,           \* self._flip_to_vertical
    sampling_interval,          \* constructor argument sampling_interval
    total_video_frames,         \* self._total_video_frames
    result_image,               \* self.result_image
    processed_frame_n,          \* index of the next iteration of the frame loop
    processed_color_section_n,  \* number of sections assigned so far
    pc,                         \* position of the script
    exit_code,                  \* process exit status, -1 while running
    uncaught,                   \* exception that ended the run, "none" otherwise
    errors_logged,              \* messages passed to logger.error
    reads,                      \* history: calls of self._video.read()
    end_of_stream,              \* history: a read returned retval = False
    bar_writes,                 \* history: section assignments executed
    finalized,                  \* history: executions of the flip step
    before_flip,                \* history: result_image when the flip step began
    save_retvals                \* history: what each call of cv2.imwrite returned

vars == <<video_opened, frame_count, image_size, color_section_size,
          flip_to_vertical, sampling_interval, total_video_frames,
          result_image, processed_frame_n, processed_color_section_n, pc,
          exit_code, uncaught, errors_logged, reads, end_of_stream,
          bar_writes, finalized, before_flip, save_retvals>>

config == <<video_opened, frame_count, image_size, color_section_size,
            flip_to_vertical, sampling_interval>>

history == <<reads, end_of_stream, bar_writes, finalized, before_flip,
             save_retvals>>

Min(a, b) == IF a < b THEN a ELSE b

-----------------------------------------------------------------------------
\* Images.  An array of shape (rows, cols, 3) is a record; a cell holds the
\* three channel values.

Zero == <<0, 0, 0>>

\* The attribute result_image before the constructor assigns it.
NoImage == [rows |-> -1, cols |-> -1, px |-> <<>>]

Cells(rows, cols) == (0 .. rows - 1) \X (0 .. cols - 1)

\* np.zeros([rows, cols, 3])
Zeros(rows, cols) ==
    [rows |-> rows, cols |-> cols, px |-> [rc \in Cells(rows, cols) |-> Zero]]

\* The decoded frame at index f: two pixels of three channels.  The channel
\* sums are even, so the mean below is exact.
VideoFrame(f) ==
    LET v == f % 5
    IN  << <<2 * v, v, 4>>, <<2 * v + 2, v + 2, 0>> >>

RECURSIVE ChannelSum(_, _, _)
ChannelSum(image, ch, k) ==
    IF k = 0 THEN 0 ELSE image[k][ch] + ChannelSum(image, ch, k - 1)

\* np.mean(image, axis=(0, 1)): the per-channel mean over all pixels.
MeanColor(image) ==
    [ch \in 1 .. 3 |-> ChannelSum(image, ch, Len(image)) \div Len(image)]

\* Python's floor division total // interval, interval # 0.
FloorDiv(total, interval) ==
    IF interval > 0
    THEN total \div interval
    ELSE -((total + (-interval) - 1) \div (-interval))

\* Variant: the section count rounded up instead of down.
NumberOfColorSectionsRoundedUp(total, interval) ==
    -FloorDiv(-total, interval)

\* number_of_color_sections of the constructor.
NumberOfColorSections(total, interval) == FloorDiv(total, interval)

\* Width of the slice start:stop of an axis of length cols (0 <= start <= stop).
SliceWidth(cols, start, stop) == Min(stop, cols) - Min(start, cols)

\* Whether a (rows, width, 3) value can be broadcast into a slice of the given
\* width: equal widths, or a width of one.
Broadcastable(width, slice_width) == width = slice_width \/ width = 1

\* Variant: the slice taken with its stop column included.
AssignSectionInclusiveStop(img, start, stop, mean_color) ==
    [img EXCEPT !.px =
        [rc \in DOMAIN img.px |->
            IF rc[2] >= start /\ rc[2] <= stop THEN mean_color ELSE img.px[rc]]]

\* result_image[:, start:stop, :] = np.ones([rows, width, 3]) * mean_color
AssignSection(img, start, stop, mean_color) ==
    [img EXCEPT !.px =
        [rc \in DOMAIN img.px |->
            IF rc[2] >= start /\ rc[2] < stop THEN mean_color ELSE img.px[rc]]]

\* cv2.rotate(img, cv2.ROTATE_90_CLOCKWISE)
Rotate90Clockwise(img) ==
    [rows |-> img.cols, cols |-> img.rows,
     px |-> [rc \in Cells(img.cols, img.rows) |->
                img.px[<<img.rows - 1 - rc[2], rc[1]>>]]]

-----------------------------------------------------------------------------
Init ==
    /\ video_opened \in BOOLEAN
    /\ frame_count \in 0 .. MaxFrames
    /\ (~video_opened => frame_count = 0)
    /\ image_size \in -1 .. MaxSize
    /\ color_section_size \in -1 .. MaxSection
    /\ flip_to_vertical \in BOOLEAN
    /\ sampling_interval \in Intervals
    /\ total_video_frames = 0
    /\ result_image = NoImage
    /\ processed_frame_n = 0
    /\ processed_color_section_n = 0
    /\ pc = "start"
    /\ exit_code = -1
    /\ uncaught = "none"
    /\ errors_logged = {}
    /\ reads = 0
    /\ end_of_stream = FALSE
    /\ bar_writes = <<>>
    /\ finalized = 0
    /\ before_flip = NoImage
    /\ save_retvals = <<>>

\* The two messages the script logs at error level.
NotLoaded == "Video was not loaded correctly, exiting."
SavingFailed == "Saving result image failed."

\* Variant: only a negative frame count is taken for a video that failed to load.
VideoNotLoadedNegative(total) == total < 0

\* The constructor's test of the frame count.
VideoNotLoaded(total) == total = 0

\* An exception nobody catches ends the interpreter with status 1.
Raise(name) ==
    /\ pc' = "raised"
    /\ uncaught' = name
    /\ exit_code' = 1

\* ColorMapMaker.__init__
Construct ==
    /\ pc = "start"
    /\ total_video_frames' = frame_count
    /\ UNCHANGED <<config, processed_frame_n, processed_color_section_n, history>>
    /\ IF VideoNotLoaded(frame_count)
       THEN /\ errors_logged' = errors_logged \cup {NotLoaded}
            /\ pc' = "exited"
            /\ exit_code' = 1
            /\ UNCHANGED <<uncaught, result_image>>
       ELSE IF sampling_interval = 0
       THEN /\ Raise("ZeroDivisionError")
            /\ UNCHANGED <<errors_logged, result_image>>
       ELSE LET cols == color_section_size
                          * NumberOfColorSections(frame_count, sampling_interval)
            IN  IF image_size < 0 \/ cols < 0
                THEN /\ Raise("ValueError")
                     /\ UNCHANGED <<errors_logged, result_image>>
                ELSE /\ result_image' = Zeros(image_size, cols)
                     /\ pc' = "loop"
                     /\ UNCHANGED <<errors_logged, exit_code, uncaught>>

\* One iteration of the frame loop in which read() returns a frame.
ReadFrame ==
    /\ pc = "loop"
    /\ processed_frame_n < total_video_frames
    /\ reads' = reads + 1
    /\ UNCHANGED <<config, total_video_frames, errors_logged, end_of_stream,
                   finalized, before_flip, save_retvals>>
    /\ LET image == VideoFrame(processed_frame_n)
           start == processed_color_section_n * color_section_size
           stop  == start + color_section_size
       IN  IF processed_frame_n % SampleEvery # 0
           THEN /\ processed_frame_n' = processed_frame_n + 1
                /\ UNCHANGED <<result_image, processed_color_section_n, pc,
                               exit_code, uncaught, bar_writes>>
           ELSE IF color_section_size < 0
           THEN /\ Raise("ValueError")
                /\ UNCHANGED <<result_image, processed_frame_n,
                               processed_color_section_n, bar_writes>>
           ELSE /\ bar_writes' = Append(bar_writes,
                                    [frame |-> processed_frame_n,
                                     index |-> processed_color_section_n])
                /\ IF Broadcastable(color_section_size,
                                    SliceWidth(result_image.cols, start, stop))
                   THEN /\ result_image' = AssignSection(result_image, start, stop,
                                                         MeanColor(image))
                        /\ processed_color_section_n' = processed_color_section_n + 1
                        /\ processed_frame_n' = processed_frame_n + 1
                        /\ UNCHANGED <<pc, exit_code, uncaught>>
                   ELSE /\ Raise("ValueError")
                        /\ UNCHANGED <<result_image, processed_frame_n,
                                       processed_color_section_n>>

\* An iteration in which read() returns retval = False: break.
ReadEndOfStream ==
    /\ pc = "loop"
    /\ processed_frame_n < total_video_frames
    /\ reads' = reads + 1
    /\ end_of_stream' = TRUE
    /\ pc' = "flip"
    /\ UNCHANGED <<config, total_video_frames, result_image, processed_frame_n,
                   processed_color_section_n, exit_code, uncaught, errors_logged,
                   bar_writes, finalized, before_flip, save_retvals>>

\* range(self._total_video_frames) is exhausted.
LoopExhausted ==
    /\ pc = "loop"
    /\ processed_frame_n = total_video_frames
    /\ pc' = "flip"
    /\ UNCHANGED <<config, total_video_frames, result_image, processed_frame_n,
                   processed_color_section_n, exit_code, uncaught, errors_logged,
                   history>>

\* The end of process_image: the optional rotation.
Finalize ==
    /\ pc = "flip"
    /\ result_image' = IF flip_to_vertical
                       THEN Rotate90Clockwise(result_image)
                       ELSE result_image
    /\ finalized' = finalized + 1
    /\ before_flip' = result_image
    /\ pc' = "save"
    /\ UNCHANGED <<config, total_video_frames, processed_frame_n,
                   processed_color_section_n, exit_code, uncaught, errors_logged,
                   reads, end_of_stream, bar_writes, save_retvals>>

\* Variant: a failed cv2.imwrite is tried a second time.
SaveResultToFileRetrying ==
    /\ pc = "save"
    /\ \E retval \in BOOLEAN, again \in BOOLEAN :
          /\ save_retvals' = IF retval
                             THEN Append(save_retvals, retval)
                             ELSE save_retvals \o <<retval, again>>
          /\ errors_logged' = IF retval \/ again
                              THEN errors_logged
                              ELSE errors_logged \cup {SavingFailed}
    /\ pc' = "cleanup"
    /\ UNCHANGED <<config, total_video_frames, result_image, processed_frame_n,
                   processed_color_section_n, exit_code, uncaught, reads,
                   end_of_stream, bar_writes, finalized, before_flip>>

\* ColorMapMaker.save_result_to_file: cv2.imwrite succeeds or not.
SaveResultToFile ==
    /\ pc = "save"
    /\ \E retval \in BOOLEAN :
          /\ save_retvals' = Append(save_retvals, retval)
          /\ errors_logged' = IF retval
                              THEN errors_logged
                              ELSE errors_logged \cup {SavingFailed}
    /\ pc' = "cleanup"
    /\ UNCHANGED <<config, total_video_frames, result_image, processed_frame_n,
                   processed_color_section_n, exit_code, uncaught, reads,
                   end_of_stream, bar_writes, finalized, before_flip>>

\* ColorMapMaker.cleanup, after which the script ends with status 0.
Cleanup ==
    /\ pc = "cleanup"
    /\ pc' = "done"
    /\ exit_code' = 0
    /\ UNCHANGED <<config, total_video_frames, result_image, processed_frame_n,
                   processed_color_section_n, uncaught, errors_logged, history>>

Next ==
    \/ Construct
    \/ ReadFrame
    \/ ReadEndOfStream
    \/ LoopExhausted
    \/ Finalize
    \/ SaveResultToFile
    \/ Cleanup

Spec == Init /\ [][Next]_vars

-----------------------------------------------------------------------------
\* Vocabulary of the properties.

\* S, T and I are all at least one.
ValidConfig ==
    image_size >= 1 /\ color_section_size >= 1 /\ sampling_interval >= 1

\* B = floor(N / I), for I >= 1.
BarCount ==
    IF sampling_interval >= 1 THEN frame_count \div sampling_interval ELSE 0

CeilDiv(a, b) == (a + b - 1) \div b

\* The run is over.
Terminal == pc \in {"done", "exited", "raised"}

\* Bar i of img (all rows, columns [i*T, i*T + T)) lies inside img and holds c
\* in every cell.
BarFilled(img, i, c) ==
    \A r \in 0 .. image_size - 1 :
        \A col \in i * color_section_size .. i * color_section_size + color_section_size - 1 :
            /\ <<r, col>> \in DOMAIN img.px
            /\ img.px[<<r, col>>] = c

\* What the caller of the script observes when it ends.
Observed == <<exit_code, uncaught, errors_logged>>

\* The error a run ended with, from what actually happened in it.
ErrorKind ==
    IF ~video_opened THEN "SourceUnavailable"
    ELSE IF frame_count = 0 THEN "EmptySource"
    ELSE IF uncaught # "none" THEN "InvalidDimensions"
    ELSE IF FALSE \in {save_retvals[k] : k \in DOMAIN save_retvals} THEN "WriteFailed"
    ELSE "none"

-----------------------------------------------------------------------------
\* C1: for every interval I >= 1 and a source that delivers all N frames,
\* after the sampling loop every sampled frame f = 0, I, 2I, ... < N (whose
\* bar floor(f/I) exists in the buffer) has its mean colour uniformly in bar
\* floor(f/I) of the pre-flip buffer, and no frame with f mod I # 0 was
\* written into a bar.
C1_SampledFramesFillTheirBars ==
    (pc = "flip" /\ ~end_of_stream /\ ValidConfig) =>
        /\ \A f \in 0 .. frame_count - 1 :
              (f % sampling_interval = 0 /\ f \div sampling_interval < BarCount) =>
                  BarFilled(result_image, f \div sampling_interval,
                            MeanColor(VideoFrame(f)))
        /\ \A k \in DOMAIN bar_writes :
              bar_writes[k].frame % sampling_interval = 0

\* C2: with S, T, I >= 1 the buffer created at construction has shape
\* (S, floor(N/I) * T, 3), is all zeros before the first bar is written, and
\* keeps that shape until the rotation.
C2_BufferShape ==
    ValidConfig =>
        /\ (frame_count > 0 /\ pc # "start") => result_image # NoImage
        /\ (result_image # NoImage /\ finalized = 0) =>
              /\ result_image.rows = image_size
              /\ result_image.cols =
                    (frame_count \div sampling_interval) * color_section_size
              /\ DOMAIN result_image.px =
                    Cells(image_size,
                          (frame_count \div sampling_interval) * color_section_size)
              /\ (bar_writes = <<>> =>
                    \A rc \in DOMAIN result_image.px : result_image.px[rc] = Zero)

\* C2 witness: in the middle of the loop, after two bars were written into a
\* buffer of several columns.
C2_Witness ==
    /\ ValidConfig
    /\ pc = "loop"
    /\ Len(bar_writes) = 2
    /\ result_image.cols >= 4
    /\ image_size = 2

C4_InvalidDimensionsRejected ==
    (/\ frame_count > 0
     /\ pc # "start"
     /\ \/ image_size < 1
        \/ color_section_size < 1
        \/ sampling_interval < 1
        \/ BarCount < 1) =>
        /\ pc = "raised"
        /\ result_image = NoImage
        /\ reads = 0
        /\ bar_writes = <<>>

\* C5: when the source reports zero frames the run fails at once: exit
\* status 1 with the not-loaded error, no buffer, no read, no bar, no flip
\* step and no write to the sink.
C5_EmptySourceFailsAtOnce ==
    frame_count = 0 =>
        /\ pc \in {"start", "exited"}
        /\ result_image = NoImage
        /\ reads = 0
        /\ bar_writes = <<>>
        /\ finalized = 0
        /\ save_retvals = <<>>
        /\ (pc = "exited" =>
              /\ exit_code = 1
              /\ uncaught = "none"
              /\ errors_logged = {NotLoaded})

\* C5 witness: an opened source of zero frames has ended the run, with an
\* interval that would otherwise have been divided by.
C5_Witness ==
    /\ video_opened
    /\ frame_count = 0
    /\ pc = "exited"
    /\ sampling_interval = 0

\* C6: the error kinds are distinguishable by what the caller observes: the
\* status an opened source of zero frames ends with is observed in runs that
\* end with EmptySource and in no others.
C6_ErrorKindsDistinguishable ==
    Terminal =>
        ((Observed = <<1, "none", {NotLoaded}>>) <=> (ErrorKind = "EmptySource"))

\* C7: in every run that passes sizing the flip step happens exactly once,
\* only after the loop has ended, and before the sink is written; without the
\* flag it changes nothing, with the flag it turns (S, B*T) into (B*T, S) by
\* a clockwise quarter turn.
C7_FinalizeExactlyOnce ==
    (ValidConfig /\ BarCount >= 1 /\ frame_count > 0) =>
        /\ finalized <= 1
        /\ (finalized = 1 => pc \in {"save", "cleanup", "done"})
        /\ (save_retvals # <<>> => finalized = 1)
        /\ ((Terminal /\ result_image # NoImage) => finalized = 1)
        /\ (finalized = 1 /\ ~flip_to_vertical) => result_image = before_flip
        /\ (finalized = 1 /\ flip_to_vertical) =>
              /\ result_image.rows = BarCount * color_section_size
              /\ result_image.cols = image_size
              /\ \A rc \in DOMAIN before_flip.px :
                    result_image.px[<<rc[2], image_size - 1 - rc[1]>>]
                        = before_flip.px[rc]

\* C8: in a configuration that passes sizing every bar write targets an
\* index below B, the indices written are 0, 1, 2, ... in order, and no more
\* than B bars are written.
C8_BarWritesInRange ==
    (ValidConfig /\ BarCount >= 1) =>
        /\ Len(bar_writes) <= BarCount
        /\ \A k \in DOMAIN bar_writes :
              /\ bar_writes[k].index = k - 1
              /\ bar_writes[k].index < BarCount

\* C9: a run makes at most N reads, none after the first end of stream, and
\* ends only in Done or in a failure of the configuration: never by a fault
\* in the middle of sampling.
C9_NoFaultWhileSampling ==
    (ValidConfig /\ BarCount >= 1) =>
        /\ reads <= frame_count
        /\ (end_of_stream => reads = processed_frame_n + 1)
        /\ (Terminal => (pc = "done" \/ result_image = NoImage))

C10_WriteState ==
    /\ Len(save_retvals) <= 1
    /\ (pc \in {"cleanup", "done"} <=> Len(save_retvals) = 1)
    /\ (SavingFailed \in errors_logged <=> save_retvals = <<FALSE>>)
    /\ (save_retvals # <<>> => uncaught = "none")
    /\ (pc = "cleanup" => ENABLED Cleanup)

\* C10 amended, the steps: the write leaves the buffer as it was and is
\* followed by cleanup, and nothing changes the buffer afterwards.
C10_WriteStep ==
    /\ (save_retvals' # save_retvals =>
            /\ pc = "save"
            /\ pc' = "cleanup"
            /\ result_image' = result_image)
    /\ (save_retvals # <<>> => result_image' = result_image)

====
